---- MODULE Spec2Model ----
(***************************************************************************)
(* A model of the LFSR template generator: the GF(2) matrix arithmetic of  *)
(* lfsr_math.py (LFSR_Math), the parameter construction of lfsr_helper.py  *)
(* (LFSR_Params.__init__) and the polynomial sweep of tests/test_lfsr.py.  *)
(*                                                                         *)
(* Conventions.  A numpy array of shape r x c is a function from 0..r-1 to *)
(* functions from 0..c-1 to integers.  A message of LFSR_Math is the       *)
(* sequence of its parts (string literals and formatted integers), the     *)
(* empty message being << >>; the texts LFSR_Params reads and writes are   *)
(* strings.  A call either returns ([exc |-> "None"]) or raises            *)
(* ([exc |-> <exception name>]).                                           *)
(***************************************************************************)
EXTENDS Integers, Sequences, FiniteSets, TLC

VARIABLES
    pc,                 \* position of the running operation
    args,               \* the inputs handed to the operation
    width,              \* self.width / the width argument
    feedback_mode,      \* self.feedback_mode / the feedback_mode argument
    rng,                \* the state of the random module: its seed and the draws made, or None
    init_value_int,     \* the local init_value of _process_init_value (an int)
    init_value_numpy,   \* self.init_value_numpy (1 x width row)
    poly_int,           \* the local user_poly / random_poly (an int)
    poly_numpy,         \* self.poly_numpy (1 x width row)
    poly_func,          \* self.poly_func
    calls,              \* the LFSR_Math calls the last step made, in order
    all_polys,          \* the test's list of reference polynomials not yet found
    call,               \* the call applied last, with its scalar arguments
    ret,                \* what the operation returned or raised
    heap,               \* the numpy arrays alive, by identity (position in the sequence)
    frame,              \* the local variables of the LFSR_Math call that is running
    tape,               \* the values the seeded generator yields, in order
    previous            \* what an earlier construction in the same process ended with

vars == <<pc, args, width, feedback_mode, rng, init_value_int, init_value_numpy, poly_int,
          poly_numpy, poly_func, calls, all_polys, call, ret, heap, frame, tape, previous>>

(***************************************************************************)
(* Program constants and model bounds                                      *)
(***************************************************************************)
MinWidth == 3
RNG_Seed == 1
TestWidth == 8

MaxWidth == 4
MaxSteps == 2

Fibonacci == "Fibonacci"
Galois == "Galois"
FeedbackModeEnum == {Fibonacci, Galois}

NoneVal == "None"
Return(v) == [exc |-> "None", val |-> v]
Raise(e) == [exc |-> e, val |-> << >>]

\* Evaluation order only: Materialize(a) is a and Evaluated(a) is TRUE.  They make
\* TLC compute an array once, where it is built, instead of at every read.
Materialize(a) == IF a = a THEN a ELSE a
Evaluated(a) == a = a

(***************************************************************************)
(* numpy                                                                   *)
(***************************************************************************)
Rows(a) == Cardinality(DOMAIN a)
Cols(a) == Cardinality(DOMAIN a[0])

zeros(r, c) == [i \in 0..r-1 |-> [j \in 0..c-1 |-> 0]]

identity(n) == [i \in 0..n-1 |-> [j \in 0..n-1 |-> IF i = j THEN 1 ELSE 0]]

transpose(a) == Materialize([j \in 0..Cols(a)-1 |-> [i \in 0..Rows(a)-1 |-> a[i][j]]])

\* sum of x[i][t] * y[t][j] for t in lo..hi, halving the range
RECURSIVE DotProduct(_, _, _, _, _, _)
DotProduct(x, y, i, j, lo, hi) ==
    IF lo > hi THEN 0
    ELSE IF lo = hi THEN x[i][lo] * y[lo][j]
    ELSE LET mid == (lo + hi) \div 2
         IN  DotProduct(x, y, i, j, lo, mid) + DotProduct(x, y, i, j, mid + 1, hi)

matmul(a, b) ==
    Materialize([i \in 0..Rows(a)-1 |-> [j \in 0..Cols(b)-1 |-> DotProduct(a, b, i, j, 0, Cols(a) - 1)]])

\* mutant: every comparison finds the arrays equal
ArrayEqualAlways(a, b) == TRUE

array_equal(a, b) == a = b

\* sum of v[k] for k in lo..hi, halving the range
RECURSIVE SumRow(_, _, _)
SumRow(v, lo, hi) ==
    IF lo > hi THEN 0
    ELSE IF lo = hi THEN v[lo]
    ELSE LET mid == (lo + hi) \div 2
         IN  SumRow(v, lo, mid) + SumRow(v, mid + 1, hi)

numpy_sum(row) == SumRow(row, 0, Cardinality(DOMAIN row) - 1)

(***************************************************************************)
(* sympy                                                                   *)
(***************************************************************************)
IsPrime(n) == n >= 2 /\ \A d \in 2..(n-1) : d * d > n \/ n % d # 0

\* mutant: only the form 2^k - 1 is tested, not primality
MersenneFormOnly(n) == \E k \in 1..n : 2^k - 1 = n

is_mersenne_prime(n) == IsPrime(n) /\ \E k \in 1..n : 2^k - 1 = n

\* the elements of a set of numbers in ascending order
RECURSIVE Ascending(_)
Ascending(S) ==
    IF S = {} THEN << >>
    ELSE LET least == CHOOSE x \in S : \A y \in S : x <= y
         IN  <<least>> \o Ascending(S \ {least})

\* mutant: only 1 and n are reported
TrivialDivisors(n) == Ascending({1, n})

divisors(n) == Ascending({d \in 1..n : n % d = 0})

\* mutant: seq[2:-1], the first proper divisor is skipped
SliceSkipsFirst(seq) == IF Len(seq) <= 3 THEN << >> ELSE SubSeq(seq, 3, Len(seq) - 1)

\* seq[1:-1]
SliceInner(seq) == IF Len(seq) <= 2 THEN << >> ELSE SubSeq(seq, 2, Len(seq) - 1)

(***************************************************************************)
(* LFSR_Math                                                               *)
(***************************************************************************)
period(w) == 2^w - 1

\* mutant: a bit reads 1 when it or any bit above it is set
GetBitOrAbove(value, index) == IF value \div 2^index > 0 THEN 1 ELSE 0

get_int_bit(value, index) ==
    LET mask == 2^index
        anded == IF (value \div mask) % 2 = 1 THEN mask ELSE 0
    IN  anded \div mask

_element_gf2(mtx, row, col) ==
    [mtx EXCEPT ![row] = [mtx[row] EXCEPT ![col] = mtx[row][col] % 2]]

\* for row in range(width): _element_gf2(mtx, row, col).  The call for a row changes
\* that row only, so every row of the result is the row its own call leaves.
\* mutant: the column is left as it is
ColumnUnreduced(mtx, w, col) == mtx

column_gf2(mtx, w, col) ==
    [row \in DOMAIN mtx |-> IF row < w THEN _element_gf2(mtx, row, col)[row] ELSE mtx[row]]

\* mutant: nothing is reduced
NoReduction(mtx, w) == mtx

\* for x in range(width): column_gf2(mtx, width, x).  The call for a column changes
\* that column only, so every column of the result is the column its own call leaves.
matrix_gf2(mtx, w) ==
    Materialize([row \in DOMAIN mtx |->
                    [x \in DOMAIN mtx[row] |->
                        IF x < w THEN column_gf2(mtx, w, x)[row][x] ELSE mtx[row][x]]])

RECURSIVE ExponentiateLoop(_, _, _, _, _)
ExponentiateLoop(result, base, pwr, w, i) ==
    IF Evaluated(result) /\ i >= w THEN result
    ELSE LET ei == get_int_bit(pwr, i)
             multiplied == IF ei > 0 THEN matrix_gf2(matmul(result, base), w) ELSE result
             squared == matrix_gf2(matmul(base, base), w)
         IN  ExponentiateLoop(multiplied, squared, pwr, w, i + 1)

\* mutant: the loop starts at exponent bit 1
ExponentiateFromBitOne(mtx, pwr, w) == ExponentiateLoop(identity(w), mtx, pwr, w, 1)

matrix_exponentiate_gf2(mtx, pwr, w) == ExponentiateLoop(identity(w), mtx, pwr, w, 0)

\* mutant: row 0 is never set to the polynomial
TransitionMatrixNoTaps(poly, w) ==
    Materialize([i \in 0..w-1 |-> [j \in 0..w-1 |-> IF i >= 1 /\ j = i - 1 THEN 1 ELSE 0]])

\* mtx = zeros; mtx[i + 1][i] = 1 for i in range(0, width - 1); mtx[0] = poly[0]
TransitionMatrix(poly, w) ==
    LET shifted == [i \in 0..w-1 |-> [j \in 0..w-1 |-> IF i >= 1 /\ j = i - 1 THEN 1 ELSE 0]]
    IN  Materialize([shifted EXCEPT ![0] = poly[0]])

\* mutant: the state comes back as it was given
FastForwardStandsStill(poly, init, steps, w) == Return(init)

fast_forward_poly_fibonacci(poly, init, steps, w) ==
    LET init_t == transpose(init)
        mtx == TransitionMatrix(poly, w)
        mtx_pow == matrix_exponentiate_gf2(mtx, steps, w)
        last == column_gf2(matmul(mtx_pow, init_t), w, 0)
    IN  Return(transpose(last))

\* mutant: Galois mode computes what Fibonacci mode computes
GaloisAsFibonacci(poly, init, steps, w) == fast_forward_poly_fibonacci(poly, init, steps, w)

fast_forward_poly_galois(poly, init, steps, w) == Raise("NotImplementedError")

int2row(value, w) == Materialize([r \in 0..0 |-> [index \in 0..w-1 |-> get_int_bit(value, index)]])

\* mutant: the all-ones value is taken to be 2^width
ValidateInitOffByOne(mode, init_value, w) ==
    IF mode = Fibonacci /\ init_value = 0
    THEN <<FALSE, <<"All-zeroes state is prohibited in Fibonacci mode!">> >>
    ELSE IF mode = Galois /\ init_value = 2^w
    THEN <<FALSE, <<"All-ones state is prohibited in Galois mode!">> >>
    ELSE <<TRUE, << >> >>

validate_init_value_int(mode, init_value, w) ==
    IF mode = Fibonacci /\ init_value = 0
    THEN <<FALSE, <<"All-zeroes state is prohibited in Fibonacci mode!">> >>
    ELSE IF mode = Galois /\ init_value = 2^w - 1
    THEN <<FALSE, <<"All-ones state is prohibited in Galois mode!">> >>
    ELSE <<TRUE, << >> >>

\* mutant: the parity of the tap count is not tested
ValidatePolyNoParity(poly, w) ==
    IF poly[0][w - 1] = 0
    THEN <<FALSE, <<"Polynomial does not have nonzero coefficient for the largest power of x">> >>
    ELSE IF numpy_sum(poly[0]) < 2
    THEN <<FALSE, <<"Polynomial must have at least two feedback taps">> >>
    ELSE <<TRUE, << >> >>

validate_poly_numpy(poly, w) ==
    IF poly[0][w - 1] = 0
    THEN <<FALSE, <<"Polynomial does not have nonzero coefficient for the largest power of x">> >>
    ELSE IF numpy_sum(poly[0]) < 2
    THEN <<FALSE, <<"Polynomial must have at least two feedback taps">> >>
    ELSE IF numpy_sum(poly[0]) % 2 > 0
    THEN <<FALSE, <<"Polynomial must have an even number of feedback taps">> >>
    ELSE <<TRUE, << >> >>

fast_forward_poly_wrapper(mode, poly, w, init_value, count) ==
    IF mode = Fibonacci THEN fast_forward_poly_fibonacci(poly, init_value, count, w)
    ELSE IF mode = Galois THEN fast_forward_poly_galois(poly, init_value, count, w)
    ELSE Raise("RuntimeError")

\* the for loop over the sub-periods: ds is what is left of divisors
RECURSIVE SubPeriodLoop(_, _, _, _, _, _)
SubPeriodLoop(mode, poly, w, init_value, ds, msg) ==
    IF Evaluated(msg) /\ ds = << >> THEN Return(<<TRUE, << >> >>)
    ELSE LET d == Head(ds)
             checking == msg \o <<"  Checking sub-period of ", d>>
             last == fast_forward_poly_wrapper(mode, poly, w, init_value, d)
         IN  IF last.exc # NoneVal THEN last
             ELSE IF array_equal(last.val, init_value)
             THEN Return(<<FALSE, checking \o <<"    Value after sub-period matches initial value, not max length">> >>)
             ELSE SubPeriodLoop(mode, poly, w, init_value, Tail(ds),
                                checking \o <<"    Value after sub-period doesn't match initial value (OK)">>)

\* mutant: no polynomial is certified
CheckNeverAccepts(mode, poly, w, init_value) == Return(<<FALSE, << >> >>)

check_poly_max_length(mode, poly, w, init_value) ==
    LET last == fast_forward_poly_wrapper(mode, poly, w, init_value, period(w))
        msg == <<"Value after full period matches initial value (OK)">>
    IN  IF last.exc # NoneVal THEN last
        ELSE IF ~array_equal(last.val, init_value)
        THEN Return(<<FALSE, <<"Value after full period doesn't match initial value, not max length">> >>)
        ELSE IF is_mersenne_prime(period(w))
        THEN Return(<<TRUE, << >> >>)
        ELSE SubPeriodLoop(mode, poly, w, init_value, SliceInner(divisors(period(w))),
                           msg \o <<"\nChecking sub-periods...">>)

(***************************************************************************)
(* The functions of LFSR_Math applied to drawn arguments                   *)
(***************************************************************************)
Widths == MinWidth..MaxWidth

StepChoices(w) == (0..MaxSteps) \cup {period(w)}

InitMath ==
    /\ pc = "ready"
    /\ width \in Widths
    /\ feedback_mode \in FeedbackModeEnum
    /\ args \in [poly : 0..(2^width - 1), init_value : 0..(2^width - 1)]
    /\ poly_int = args.poly
    /\ init_value_int = args.init_value
    /\ poly_numpy = int2row(args.poly, width)
    /\ init_value_numpy = int2row(args.init_value, width)
    /\ rng = NoneVal
    /\ heap = << >>
    /\ frame = NoneVal
    /\ tape = << >>
    /\ previous = NoneVal
    /\ poly_func = NoneVal
    /\ calls = << >>
    /\ all_polys = NoneVal
    /\ call = << >>
    /\ ret = NoneVal

Applied(c, r) ==
    /\ pc' = "returned"
    /\ call' = c
    /\ ret' = r
    /\ UNCHANGED <<heap, frame, tape, previous, args, width, feedback_mode, rng, init_value_int, init_value_numpy, poly_int,
                   poly_numpy, poly_func, calls, all_polys>>

CallValidatePoly ==
    /\ pc = "ready"
    /\ Applied(<<"validate_poly_numpy">>, Return(validate_poly_numpy(poly_numpy, width)))

CallValidateInitValue ==
    /\ pc = "ready"
    /\ Applied(<<"validate_init_value_int">>,
               Return(validate_init_value_int(feedback_mode, args.init_value, width)))

CallCheckPolyMaxLength ==
    /\ pc = "ready"
    /\ Applied(<<"check_poly_max_length">>,
               check_poly_max_length(feedback_mode, poly_numpy, width, init_value_numpy))

CallFastForward ==
    /\ pc = "ready"
    /\ \E a \in StepChoices(width) :
          Applied(<<"fast_forward_poly_wrapper", a>>,
                  fast_forward_poly_wrapper(feedback_mode, poly_numpy, width, init_value_numpy, a))

\* fast-forward by a, then fast-forward the result by b
CallFastForwardTwice ==
    /\ pc = "ready"
    /\ \E a \in StepChoices(width) :
          LET first == fast_forward_poly_wrapper(feedback_mode, poly_numpy, width, init_value_numpy, a)
          IN  \E b \in StepChoices(width) :
                 Applied(<<"fast_forward_twice", a, b>>,
                         IF first.exc # NoneVal THEN first
                         ELSE fast_forward_poly_wrapper(feedback_mode, poly_numpy, width, first.val, b))

NextMath ==
    \/ CallValidatePoly
    \/ CallValidateInitValue
    \/ CallCheckPolyMaxLength
    \/ CallFastForward
    \/ CallFastForwardTwice

SpecMath == InitMath /\ [][NextMath]_vars

(***************************************************************************)
(* Python str and int built-ins used by LFSR_Params                        *)
(***************************************************************************)
HexDigits == "0123456789abcdef"

CharAt(s, i) == SubSeq(s, i, i)

lower_char(c) ==
    CASE c = "A" -> "a" [] c = "B" -> "b" [] c = "C" -> "c" [] c = "D" -> "d"
      [] c = "E" -> "e" [] c = "F" -> "f" [] c = "X" -> "x" [] OTHER -> c

RECURSIVE lower(_)
lower(s) == IF s = "" THEN "" ELSE lower_char(Head(s)) \o lower(Tail(s))

startswith(s, prefix) == Len(s) >= Len(prefix) /\ SubSeq(s, 1, Len(prefix)) = prefix

IsHexDigit(c) == \E k \in 1..Len(HexDigits) : CharAt(HexDigits, k) = c

DigitValue(c) == (CHOOSE k \in 1..Len(HexDigits) : CharAt(HexDigits, k) = c) - 1

RECURSIVE DigitsValue(_, _)
DigitsValue(digits, acc) ==
    IF digits = "" THEN acc ELSE DigitsValue(Tail(digits), 16 * acc + DigitValue(Head(digits)))

\* int(s, 16) of a lower-case string that starts with 0x: the prefix is skipped and at
\* least one digit must follow, every one of them a hex digit
int16(s) ==
    LET digits == SubSeq(s, 3, Len(s))
    IN  IF digits = "" \/ \E k \in 1..Len(digits) : ~IsHexDigit(CharAt(digits, k))
        THEN Raise("ValueError")
        ELSE Return(DigitsValue(digits, 0))

\* len(bin(value)[2:])
RECURSIVE bin_len(_)
bin_len(value) == IF value < 2 THEN 1 ELSE 1 + bin_len(value \div 2)

\* " " * n, for the n that occur: a feedback function is indented by fewer than 64
Blanks == "                                                                "

Spaces(n) == IF n <= 0 THEN "" ELSE SubSeq(Blanks, 1, n)

(***************************************************************************)
(* LFSR_Params                                                             *)
(***************************************************************************)
DefaultInitValue == "0x1"

_int0x16(s) ==
    LET low == lower(s)
    IN  IF ~startswith(low, "0x") THEN Raise("ValueError") ELSE int16(low)

_exit_failure(msg) == [exc |-> "SystemExit", val |-> msg]

ValidateInitCall(mode, value, w) ==
    [fn |-> "validate_init_value_int", args |-> <<mode, value, w>>,
     ret |-> Return(validate_init_value_int(mode, value, w))]

ValidatePolyCall(row, w) ==
    [fn |-> "validate_poly_numpy", args |-> <<row, w>>,
     ret |-> Return(validate_poly_numpy(row, w))]

CheckPolyCall(mode, row, w, init_row) ==
    [fn |-> "check_poly_max_length", args |-> <<mode, row, w, init_row>>,
     ret |-> check_poly_max_length(mode, row, w, init_row)]

\* check_poly_max_length has no effect but its result.  The search loop calls it turn
\* after turn on the same few arguments; its results on the rows of the widths
\* constructed with, each computed once.
CheckPolyResults ==
    Materialize([mode \in FeedbackModeEnum |->
                    [w \in Widths |->
                        [p \in 0..(2^w - 1) |->
                            [v \in 0..(2^w - 1) |->
                                check_poly_max_length(mode, int2row(p, w), w, int2row(v, w))]]]])

\* the number whose row is row: where the results hold the result for it
RECURSIVE RowValue(_, _)
RowValue(row, n) == IF n = 0 THEN 0 ELSE row[0][n - 1] * 2^(n - 1) + RowValue(row, n - 1)

\* mutant: the loop certifies each candidate against the default initial state
CheckAgainstDefault(mode, row, w, init_row) ==
    [fn |-> "check_poly_max_length", args |-> <<mode, row, w, int2row(1, w)>>,
     ret |-> CheckPolyResults[mode][w][RowValue(row, w)][1]]

\* the call in the search loop
CheckPolyCallInLoop(mode, row, w, init_row) ==
    [fn |-> "check_poly_max_length", args |-> <<mode, row, w, init_row>>,
     ret |-> CheckPolyResults[mode][w][RowValue(row, w)][RowValue(init_row, w)]]

\* mutant: the value that was parsed and fits the width is returned without
\* validate_init_value_int being called
ParseInitValueUnvalidated(arg, mode, w) ==
    LET parsed == _int0x16(arg)
    IN  IF parsed.exc # NoneVal
        THEN [out |-> _exit_failure("Can't parse initial value"), made |-> << >>]
        ELSE IF bin_len(parsed.val) > w
        THEN [out |-> _exit_failure("Initial value is too large"), made |-> << >>]
        ELSE [out |-> Return(parsed.val), made |-> << >>]

\* what the function returned or raised, and the LFSR_Math calls it made
_parse_init_value_arg(arg, mode, w) ==
    LET parsed == _int0x16(arg)
    IN  IF parsed.exc # NoneVal
        THEN [out |-> _exit_failure("Can't parse initial value ('" \o arg
                                    \o "'), specify as hex number, eg. 0x4321"),
              made |-> << >>]
        ELSE LET value == parsed.val
                 init_value_width == bin_len(value)
                 validation == ValidateInitCall(mode, value, w)
             IN  IF init_value_width > w
                 THEN [out |-> _exit_failure("Initial value '" \o arg \o "' is too large ("
                                             \o ToString(init_value_width)
                                             \o " bits), must fit in only "
                                             \o ToString(w) \o " bits"),
                       made |-> << >>]
                 ELSE IF ~validation.ret.val[1]
                 THEN [out |-> _exit_failure("Initial value '" \o arg
                                             \o "' is prohibited for the specified LFSR mode"),
                       made |-> <<validation>>]
                 ELSE [out |-> Return(value), made |-> <<validation>>]

\* mutant: the width of the polynomial is not looked at
ParseUserPolyAnyWidth(arg, w) ==
    LET parsed == _int0x16(arg)
    IN  IF parsed.exc # NoneVal THEN _exit_failure("Can't parse polynomial") ELSE parsed

_parse_user_poly_arg(arg, w) ==
    LET parsed == _int0x16(arg)
    IN  IF parsed.exc # NoneVal
        THEN _exit_failure("Can't parse polynomial ('" \o arg \o "'), please specify it as hex "
                           \o "number with the highest power on the left, "
                           \o "eg. 0xC means x^4 + x^3 + 1")
        ELSE LET user_poly_width == bin_len(parsed.val)
             IN  IF user_poly_width > w
                 THEN _exit_failure("Polynomial '" \o arg \o "' is too large (largest power is "
                                    \o ToString(user_poly_width)
                                    \o "), must have largest nonzero power of " \o ToString(w))
                 ELSE parsed

\* mutant: the expression is closed after the top tap, no other tap is written
TapLoopNoTaps(row, i, seen_taps, total_taps, offset, text) == text \o "};"

RECURSIVE TapLoop(_, _, _, _, _, _)
TapLoop(row, i, seen_taps, total_taps, offset, text) ==
    IF i < 0 THEN text
    ELSE IF row[0][i] = 1
    THEN LET tap == text \o "\n" \o Spaces(offset) \o "lfsr_value_current[" \o ToString(i) \o "]"
             closed == IF seen_taps + 1 < total_taps THEN tap \o " ^" ELSE tap \o "};"
         IN  TapLoop(row, i - 1, seen_taps + 1, total_taps, offset, closed)
    ELSE TapLoop(row, i - 1, seen_taps, total_taps, offset, text)

_process_poly_func_fibonacci(row, w) ==
    LET head == "lfsr_value_next = {lfsr_value_current[" \o ToString(w - 2) \o ":0], "
        poly_func_offset == 8 + Len(head)
        first == head \o "lfsr_value_current[" \o ToString(w - 1) \o "] ^"
    IN  Return(TapLoop(row, w - 2, 1, numpy_sum(row[0]), poly_func_offset, first))

_process_poly_func_galois(row, w) == Raise("NotImplementedError")

_process_poly_func_wrapper(mode, row, w) ==
    IF mode = Fibonacci THEN _process_poly_func_fibonacci(row, w)
    ELSE IF mode = Galois THEN _process_poly_func_galois(row, w)
    ELSE Raise("RuntimeError")

\* The command lines: a width, a mode, an initial value given as text or asked to be
\* random, and a polynomial given as text or left out.  The texts are the hex numbers
\* of up to one bit more than the width, and texts int0x16 refuses.
ArgWidths == (MinWidth - 1)..MaxWidth

\* The calls the search loop makes for a candidate have no effect but their results,
\* so the loop looks the results up in tables that are computed once.
ValidatePolyResults ==
    Materialize([w \in Widths |-> [p \in 0..(2^w - 1) |-> ValidatePolyCall(int2row(p, w), w)]])

PolyFuncResults ==
    Materialize([mode \in FeedbackModeEnum |-> [w \in Widths |-> [p \in 0..(2^w - 1) |->
        _process_poly_func_wrapper(mode, int2row(p, w), w)]]])

RECURSIVE HexText(_)
HexText(v) == IF v < 16 THEN CharAt(HexDigits, v + 1)
              ELSE HexText(v \div 16) \o CharAt(HexDigits, (v % 16) + 1)

ArgTexts(w) == {"0x" \o HexText(v) : v \in 0..(2^(w + 1) - 1)} \cup {"", "5", "0x", "0xg", "0X6"}

Init ==
    /\ pc = "start"
    /\ \E w \in ArgWidths :
          args \in [width : {w}, feedback_mode : FeedbackModeEnum, init_random : BOOLEAN,
                    init_value : ArgTexts(w), poly : {NoneVal} \cup ArgTexts(w)]
    /\ args.init_random => args.init_value = DefaultInitValue
    /\ width = NoneVal
    /\ feedback_mode = NoneVal
    /\ rng = NoneVal
    /\ heap = << >>
    /\ frame = NoneVal
    /\ tape = << >>
    /\ previous = NoneVal
    /\ init_value_int = NoneVal
    /\ init_value_numpy = NoneVal
    /\ poly_int = NoneVal
    /\ poly_numpy = NoneVal
    /\ poly_func = NoneVal
    /\ calls = << >>
    /\ all_polys = NoneVal
    /\ call = << >>
    /\ ret = NoneVal

\* __init__ up to the initial value: the sanity check, the seeding, the simple fields
\* random.seed(a): the module's generator starts the stream of seed a afresh.
\* The generator's state is its seed and the values it yielded since it was seeded.
\* mutant: the seed is set, the position in the stream is kept
SeedKeepsPosition(r, a) == [seed |-> a, yielded |-> r.yielded]

random_seed(r, a) == [seed |-> a, yielded |-> << >>]

\* random.getrandbits: v is what the generator in state r yields.  tp holds the values
\* of the seed's stream known so far: a position below its length yields the value
\* recorded there, a later one any value.
Yields(r, tp, v) == Len(r.yielded) < Len(tp) => tp[Len(r.yielded) + 1] = v

\* the generator and the known stream after it yielded v
random_getrandbits(r, tp, v) ==
    [rng |-> [r EXCEPT !.yielded = Append(r.yielded, v)],
     tape |-> IF Len(r.yielded) < Len(tp) THEN tp ELSE Append(tp, v)]

Begin ==
    /\ pc = "start"
    /\ calls' = << >>
    /\ IF args.width < MinWidth
       THEN /\ pc' = "failed"
            /\ ret' = _exit_failure("Width must be >= " \o ToString(MinWidth)
                                    \o ", was given " \o ToString(args.width))
            /\ UNCHANGED <<rng, width, feedback_mode>>
       ELSE /\ pc' = "init_value"
            /\ rng' = random_seed(rng, RNG_Seed)
            /\ width' = args.width
            /\ feedback_mode' = args.feedback_mode
            /\ ret' = ret
    /\ UNCHANGED <<heap, frame, tape, previous, args, init_value_int, init_value_numpy, poly_int, poly_numpy, poly_func,
                   all_polys, call>>

\* _process_init_value, the branch that parses the user's text
ParseInitValue ==
    /\ pc = "init_value"
    /\ ~args.init_random
    /\ LET parsed == _parse_init_value_arg(args.init_value, feedback_mode, width)
       IN  /\ calls' = parsed.made
           /\ IF parsed.out.exc # NoneVal
              THEN /\ pc' = "failed"
                   /\ ret' = parsed.out
                   /\ UNCHANGED <<init_value_int, init_value_numpy>>
              ELSE /\ pc' = "poly"
                   /\ init_value_int' = parsed.out.val
                   /\ init_value_numpy' = int2row(parsed.out.val, width)
                   /\ ret' = ret
    /\ UNCHANGED <<heap, frame, tape, previous, args, width, feedback_mode, rng, poly_int, poly_numpy, poly_func, all_polys, call>>

\* _process_init_value, the random branch: one draw, the first or a repeated one,
\* that yielded drawn
DrawInitValueOf(drawn) ==
    /\ pc = "init_value"
    /\ args.init_random
    /\ drawn \in 0..(2^width - 1)
    /\ LET validation == ValidateInitCall(feedback_mode, drawn, width)
       IN  /\ init_value_int' = drawn
           /\ calls' = <<validation>>
           /\ IF validation.ret.val[1]
              THEN /\ pc' = "poly"
                   /\ init_value_numpy' = int2row(drawn, width)
              ELSE /\ pc' = pc
                   /\ init_value_numpy' = init_value_numpy
    /\ UNCHANGED <<heap, frame, previous, args, width, feedback_mode, poly_int, poly_numpy,
                   poly_func, all_polys, call, ret>>

\* the draw yields any width-bit value: the stream of the seed is left open
DrawInitValue ==
    /\ pc = "init_value"
    /\ \E drawn \in 0..(2^width - 1) : DrawInitValueOf(drawn)
    /\ UNCHANGED <<rng, tape>>

\* the end of __init__ once a polynomial was accepted: the feedback function
Formatted(pf) ==
    IF pf.exc # NoneVal
    THEN pc' = "failed" /\ ret' = pf /\ poly_func' = poly_func
    ELSE pc' = "done" /\ ret' = Return(NoneVal) /\ poly_func' = pf.val

\* __init__ from the polynomial on, when the user supplied one
UserPoly ==
    /\ pc = "poly"
    /\ args.poly # NoneVal
    /\ LET parsed == _parse_user_poly_arg(args.poly, width)
       IN  IF parsed.exc # NoneVal
           THEN /\ pc' = "failed"
                /\ ret' = parsed
                /\ calls' = << >>
                /\ UNCHANGED <<poly_int, poly_numpy, poly_func>>
           ELSE LET row == int2row(parsed.val, width)
                    validation == ValidatePolyCall(row, width)
                    checking == CheckPolyCall(feedback_mode, row, width, init_value_numpy)
                IN  /\ poly_int' = parsed.val
                    /\ poly_numpy' = row
                    /\ IF ~validation.ret.val[1]
                       THEN /\ pc' = "failed"
                            /\ ret' = _exit_failure("User-supplied polynomial is invalid!")
                            /\ calls' = <<validation>>
                            /\ poly_func' = poly_func
                       ELSE /\ calls' = <<validation, checking>>
                            /\ IF checking.ret.exc # NoneVal
                               THEN pc' = "failed" /\ ret' = checking.ret /\ poly_func' = poly_func
                               ELSE IF ~checking.ret.val[1]
                               THEN /\ pc' = "failed"
                                    /\ ret' = _exit_failure("User-supplied polynomial "
                                                            \o "is not maximum length!")
                                    /\ poly_func' = poly_func
                               ELSE Formatted(_process_poly_func_wrapper(feedback_mode, row, width))
    /\ UNCHANGED <<heap, frame, tape, previous, args, width, feedback_mode, rng, init_value_int, init_value_numpy, all_polys, call>>

\* __init__ from the polynomial on, when none was supplied: one turn of the search loop,
\* whose draw yielded random_poly
RandomPolyOf(random_poly) ==
    /\ pc = "poly"
    /\ args.poly = NoneVal
    /\ random_poly \in 0..(2^width - 1)
    /\ LET row == int2row(random_poly, width)
           validation == ValidatePolyResults[width][random_poly]
           checking == CheckPolyCallInLoop(feedback_mode, row, width, init_value_numpy)
       IN  /\ poly_int' = random_poly
           /\ poly_numpy' = row
           /\ IF ~validation.ret.val[1]
              THEN /\ calls' = <<validation>>
                   /\ UNCHANGED <<pc, ret, poly_func>>
              ELSE /\ calls' = <<validation, checking>>
                   /\ IF checking.ret.exc # NoneVal
                      THEN pc' = "failed" /\ ret' = checking.ret /\ poly_func' = poly_func
                      ELSE IF ~checking.ret.val[1]
                      THEN UNCHANGED <<pc, ret, poly_func>>
                      ELSE Formatted(PolyFuncResults[feedback_mode][width][random_poly])
    /\ UNCHANGED <<heap, frame, previous, args, width, feedback_mode, init_value_int,
                   init_value_numpy, all_polys, call>>

RandomPoly ==
    /\ pc = "poly"
    /\ \E random_poly \in 0..(2^width - 1) : RandomPolyOf(random_poly)
    /\ UNCHANGED <<rng, tape>>

Next ==
    \/ Begin
    \/ ParseInitValue
    \/ DrawInitValue
    \/ UserPoly
    \/ RandomPoly

Spec == Init /\ [][Next]_vars

(***************************************************************************)
(* The construction in Fibonacci mode when the generator yields every      *)
(* value again and again                                                   *)
(***************************************************************************)
\* __init__ when its sanity check has passed, the generator is seeded and the simple
\* fields are set, with at least one of the initial value and the polynomial to be
\* drawn.  TLC compares successive states when it checks a temporal property, so a
\* name that is not bound yet (it is never read) holds a value of the kind it is
\* bound to later: 0 for an int, the empty array for an array, no exception for ret.
InitSearch ==
    /\ pc = "init_value"
    /\ \E w \in Widths :
          args \in [width : {w}, feedback_mode : {Fibonacci}, init_random : BOOLEAN,
                    init_value : ArgTexts(w), poly : {NoneVal} \cup ArgTexts(w)]
    /\ args.init_random => args.init_value = DefaultInitValue
    /\ args.init_random \/ args.poly = NoneVal
    /\ width = args.width
    /\ feedback_mode = args.feedback_mode
    /\ rng = random_seed(NoneVal, RNG_Seed)
    /\ init_value_int = 0
    /\ init_value_numpy = << >>
    /\ poly_int = 0
    /\ poly_numpy = << >>
    /\ poly_func = NoneVal
    /\ calls = << >>
    /\ ret = Return(NoneVal)
    /\ heap = << >>
    /\ frame = NoneVal
    /\ tape = << >>
    /\ previous = NoneVal
    /\ all_polys = NoneVal
    /\ call = << >>

NextSearch ==
    \/ ParseInitValue
    \/ DrawInitValue
    \/ UserPoly
    \/ RandomPoly

\* a draw, of either loop, that yields v
Drawn(v) == (DrawInitValueOf(v) \/ RandomPolyOf(v)) /\ UNCHANGED <<rng, tape>>

\* The values that pass the test of each loop, per width (and, for the polynomial
\* loop, per initial value)
EndingInitValues ==
    Materialize([w \in Widths |->
        {v \in 0..(2^w - 1) : validate_init_value_int(Fibonacci, v, w)[1]}])

EndingPolys ==
    Materialize([w \in Widths |-> [i \in 0..(2^w - 1) |->
        {p \in 0..(2^w - 1) :
            /\ validate_poly_numpy(int2row(p, w), w)[1]
            /\ CheckPolyResults[Fibonacci][w][p][i].val[1]}]])

\* The values that pass the test of the loop that is running
EndsLoop ==
    IF feedback_mode # Fibonacci THEN {}
    ELSE IF pc = "init_value" THEN EndingInitValues[width]
    ELSE IF pc = "poly" THEN EndingPolys[width][init_value_int]
    ELSE {}

\* A draw that ends the loop it is made in
EndingDraw == \E v \in EndsLoop : Drawn(v) /\ pc' # pc

\* The generator yields every width-bit value again and again.  Of that this much is
\* used: while a value that ends the running loop exists, drawing one is not put off
\* for ever.
EveryValueDrawn == WF_vars(EndingDraw)

SpecSearch == InitSearch /\ [][NextSearch]_vars /\ EveryValueDrawn

(***************************************************************************)
(* Constructions one after another in one process, drawing from the stream *)
(* of the seed                                                             *)
(***************************************************************************)
\* the least width at which the search meets a valid polynomial that is not certified
StreamWidth == MinWidth + 1

MaxDraws == 3

NotConstructed ==
    [pc |-> NoneVal, ret |-> NoneVal, init_value_int |-> NoneVal, poly_int |-> NoneVal,
     poly_func |-> NoneVal, draws |-> << >>]

InitStream ==
    /\ pc = "start"
    /\ args \in [width : {StreamWidth}, feedback_mode : FeedbackModeEnum, init_random : {TRUE},
                 init_value : {DefaultInitValue},
                 poly : {NoneVal, "0x" \o HexText(2^(StreamWidth - 1) + 1)}]
    /\ width = NoneVal
    /\ feedback_mode = NoneVal
    /\ rng = [seed |-> NoneVal, yielded |-> << >>]
    /\ tape = << >>
    /\ previous = NotConstructed
    /\ heap = << >>
    /\ frame = NoneVal
    /\ init_value_int = NoneVal
    /\ init_value_numpy = NoneVal
    /\ poly_int = NoneVal
    /\ poly_numpy = NoneVal
    /\ poly_func = NoneVal
    /\ calls = << >>
    /\ all_polys = NoneVal
    /\ call = << >>
    /\ ret = NoneVal

\* the random initial value, drawn from the stream
DrawInitValueSeeded ==
    /\ pc = "init_value"
    /\ Len(rng.yielded) < MaxDraws
    /\ \E drawn \in 0..(2^width - 1) :
          /\ Yields(rng, tape, drawn)
          /\ DrawInitValueOf(drawn)
          /\ rng' = random_getrandbits(rng, tape, drawn).rng
          /\ tape' = random_getrandbits(rng, tape, drawn).tape

\* the random polynomial, drawn from the stream
RandomPolySeeded ==
    /\ pc = "poly"
    /\ Len(rng.yielded) < MaxDraws
    /\ \E random_poly \in 0..(2^width - 1) :
          /\ Yields(rng, tape, random_poly)
          /\ RandomPolyOf(random_poly)
          /\ rng' = random_getrandbits(rng, tape, random_poly).rng
          /\ tape' = random_getrandbits(rng, tape, random_poly).tape

\* LFSR_Params is constructed once more from the same arguments; the random module
\* keeps its state between the two.
ConstructAgain ==
    /\ pc \in {"done", "failed"}
    /\ previous.pc = NoneVal
    /\ previous' = [pc |-> pc, ret |-> ret, init_value_int |-> init_value_int,
                    poly_int |-> poly_int, poly_func |-> poly_func, draws |-> rng.yielded]
    /\ pc' = "start"
    /\ width' = NoneVal
    /\ feedback_mode' = NoneVal
    /\ init_value_int' = NoneVal
    /\ init_value_numpy' = NoneVal
    /\ poly_int' = NoneVal
    /\ poly_numpy' = NoneVal
    /\ poly_func' = NoneVal
    /\ calls' = << >>
    /\ ret' = NoneVal
    /\ UNCHANGED <<heap, frame, tape, args, rng, all_polys, call>>

NextStream ==
    \/ Begin
    \/ DrawInitValueSeeded
    \/ UserPoly
    \/ RandomPolySeeded
    \/ ConstructAgain

SpecStream == InitStream /\ [][NextStream]_vars

(***************************************************************************)
(* matrix_exponentiate_gf2 applied to drawn matrices and exponents         *)
(***************************************************************************)
\* Every 0/1 matrix of the minimum width; of the wider ones the transition matrices of
\* all polynomials and their transposes.
Matrices(w) ==
    IF w = MinWidth
    THEN [0..(w - 1) -> [0..(w - 1) -> {0, 1}]]
    ELSE {TransitionMatrix(int2row(v, w), w) : v \in 0..(2^w - 1)}
         \cup {transpose(TransitionMatrix(int2row(v, w), w)) : v \in 0..(2^w - 1)}

InitPow ==
    /\ pc = "ready"
    /\ width \in Widths
    /\ args \in [mtx : Matrices(width)]
    /\ feedback_mode = NoneVal
    /\ rng = NoneVal
    /\ heap = << >>
    /\ frame = NoneVal
    /\ tape = << >>
    /\ previous = NoneVal
    /\ init_value_int = NoneVal
    /\ init_value_numpy = NoneVal
    /\ poly_int = NoneVal
    /\ poly_numpy = NoneVal
    /\ poly_func = NoneVal
    /\ calls = << >>
    /\ all_polys = NoneVal
    /\ call = << >>
    /\ ret = NoneVal

CallMatrixExponentiate ==
    /\ pc = "ready"
    /\ \E pwr \in 0..period(width) :
          Applied(<<"matrix_exponentiate_gf2", pwr>>,
                  Return(matrix_exponentiate_gf2(args.mtx, pwr, width)))

NextPow == CallMatrixExponentiate

SpecPow == InitPow /\ [][NextPow]_vars

(***************************************************************************)
(* tests/test_lfsr.py                                                      *)
(***************************************************************************)
\* One clock of the Fibonacci register on integers: every bit moves up by one, the top
\* bit falls out, and bit 0 becomes the parity of the tapped bits.
RECURSIVE TappedParity(_, _, _)
TappedParity(taps, state, w) ==
    IF w = 0 THEN 0
    ELSE ((taps % 2) * (state % 2) + TappedParity(taps \div 2, state \div 2, w - 1)) % 2

Clock(taps, state, w) == ((2 * state) % (2^w)) + TappedParity(taps, state, w)

\* The register clocked len times from cur, watched for start: whether start came up,
\* after how many clocks it first did (else len), and where the register stopped.
\* The stretch of clocks is halved rather than walked.
RECURSIVE Watch(_, _, _, _, _)
Watch(taps, start, cur, w, len) ==
    IF len = 1
    THEN LET nxt == Clock(taps, cur, w) IN [found |-> nxt = start, n |-> 1, cur |-> nxt]
    ELSE LET half == len \div 2
             first == Watch(taps, start, cur, w, half)
         IN  IF first.found THEN first
             ELSE LET second == Watch(taps, start, first.cur, w, len - half)
                  IN  [second EXCEPT !.n = first.n + second.n]

\* the number of clocks after which the register that started at start is at start
\* again for the first time, 0 if it is not within 2^w clocks
OrbitLength(taps, start, w) ==
    LET watched == Watch(taps, start, start, w, 2^w)
    IN  IF watched.found THEN watched.n ELSE 0

\* tests/<width>.txt: the polynomials with the top bit set whose register runs through
\* the full period, in ascending order
load_polys(w) == Ascending({v \in (2^(w - 1))..(2^w - 1) : OrbitLength(v, 1, w) = period(w)})

list_contains(list, x) == \E k \in 1..Len(list) : list[k] = x

list_remove(list, x) ==
    LET at == CHOOSE k \in 1..Len(list) : list[k] = x /\ \A j \in 1..(k - 1) : list[j] # x
    IN  SubSeq(list, 1, at - 1) \o SubSeq(list, at + 1, Len(list))

InitTest ==
    /\ pc = "test_loop"
    /\ args = [width |-> TestWidth]
    /\ width = args.width
    /\ feedback_mode \in FeedbackModeEnum
    /\ all_polys = load_polys(width)
    /\ poly_int = 2^(width - 1)
    /\ poly_numpy = NoneVal
    /\ rng = NoneVal
    /\ heap = << >>
    /\ frame = NoneVal
    /\ tape = << >>
    /\ previous = NoneVal
    /\ init_value_int = NoneVal
    /\ init_value_numpy = NoneVal
    /\ poly_func = NoneVal
    /\ calls = << >>
    /\ call = << >>
    /\ ret = NoneVal

\* one turn of the loop of _test_check_poly_max_length_helper
TestIteration ==
    /\ pc = "test_loop"
    /\ poly_int < 2^width
    /\ LET p_numpy == int2row(poly_int, width)
           validation == ValidatePolyCall(p_numpy, width)
           checking == CheckPolyCall(feedback_mode, p_numpy, width, int2row(1, width))
       IN  /\ poly_numpy' = p_numpy
           /\ IF ~validation.ret.val[1]
              THEN /\ calls' = <<validation>>
                   /\ poly_int' = poly_int + 1
                   /\ UNCHANGED <<pc, ret, all_polys>>
              ELSE /\ calls' = <<validation, checking>>
                   /\ IF checking.ret.exc # NoneVal
                      THEN pc' = "test_done" /\ ret' = checking.ret
                           /\ UNCHANGED <<poly_int, all_polys>>
                      ELSE LET p_valid == checking.ret.val[1]
                           IN  IF \/ ~p_valid /\ list_contains(all_polys, poly_int)
                                  \/ p_valid /\ ~list_contains(all_polys, poly_int)
                               THEN pc' = "test_done" /\ ret' = Return(FALSE)
                                    /\ UNCHANGED <<poly_int, all_polys>>
                               ELSE /\ all_polys' = IF p_valid THEN list_remove(all_polys, poly_int)
                                                    ELSE all_polys
                                    /\ poly_int' = poly_int + 1
                                    /\ UNCHANGED <<pc, ret>>
    /\ UNCHANGED <<heap, frame, tape, previous, args, width, feedback_mode, rng, init_value_int, init_value_numpy, poly_func, call>>

\* the end of _test_check_poly_max_length_helper, after the loop
TestReturn ==
    /\ pc = "test_loop"
    /\ poly_int >= 2^width
    /\ pc' = "test_done"
    /\ ret' = Return(Len(all_polys) = 0)
    /\ UNCHANGED <<heap, frame, tape, previous, args, width, feedback_mode, rng, init_value_int, init_value_numpy, poly_int,
                   poly_numpy, poly_func, calls, all_polys, call>>

NextTest ==
    \/ TestIteration
    \/ TestReturn

SpecTest == InitTest /\ [][NextTest]_vars

(***************************************************************************)
(* Galois mode: the construction runs and the library calls that ask for it*)
(***************************************************************************)
InitGalois ==
    \/ Init /\ args.feedback_mode = Galois
    \/ InitMath /\ feedback_mode = Galois

NextGalois == Next \/ NextMath

SpecGalois == InitGalois /\ [][NextGalois]_vars

(***************************************************************************)
(* LFSR_Math statement by statement, on arrays that have an identity       *)
(*                                                                         *)
(* heap is the sequence of the arrays alive, an array's identity being its *)
(* position.  A name is bound to a reference: an identity, read transposed *)
(* when the reference is a numpy.transpose view.  numpy.matmul, zeros and  *)
(* identity make a new array; matrix_gf2 and column_gf2 write the array    *)
(* they are handed.  The caller's polynomial row and initial-state row are *)
(* the arrays 1 and 2; poly_numpy and init_value_numpy keep the values the *)
(* caller handed over.                                                     *)
(***************************************************************************)
Ref(id) == [id |-> id, T |-> FALSE]

numpy_transpose(ref) == [id |-> ref.id, T |-> ~ref.T]

Read(h, ref) == IF ref.T THEN transpose(h[ref.id]) ELSE h[ref.id]

PolyRef == Ref(1)
InitRef == Ref(2)

\* The arrays left when the locals of a returned call are dropped.
CallerArrays(h) == SubSeq(h, 1, 2)

\* mutant: a is written into the array made last instead of a new one
WriteOverNewest(h, a) == [h EXCEPT ![Len(h)] = a]

\* A new array holding a, appended to the heap.
NewArray(h, a) == Append(h, a)

\* The array last made.
Newest(h) == Ref(Len(h))

HeapSteps(w) == (0..MaxSteps) \cup {period(w), 2^w + MaxSteps}

InitHeap ==
    /\ pc = "ready"
    /\ width \in Widths
    /\ feedback_mode = Fibonacci
    /\ args \in [poly : 0..(2^width - 1), init_value : 0..(2^width - 1)]
    /\ poly_int = args.poly
    /\ init_value_int = args.init_value
    /\ poly_numpy = int2row(args.poly, width)
    /\ init_value_numpy = int2row(args.init_value, width)
    /\ heap = <<poly_numpy, init_value_numpy>>
    /\ frame = NoneVal
    /\ rng = NoneVal
    /\ tape = << >>
    /\ previous = NoneVal
    /\ poly_func = NoneVal
    /\ calls = << >>
    /\ all_polys = NoneVal
    /\ call = << >>
    /\ ret = NoneVal

HeapStep(p, c, r, h, f) ==
    /\ pc' = p
    /\ call' = c
    /\ ret' = r
    /\ heap' = h
    /\ frame' = f
    /\ UNCHANGED <<args, width, feedback_mode, rng, init_value_int, init_value_numpy, poly_int,
                   poly_numpy, poly_func, calls, all_polys, tape, previous>>

\* fast_forward_poly_fibonacci up to its call of matrix_exponentiate_gf2, and that
\* function up to its loop: the heap and the locals at the head of the loop.
FastForwardEntry(h, outer, steps, w, stage, ds, tested, msg) ==
    LET init_t == numpy_transpose(InitRef)
        h1 == NewArray(h, TransitionMatrix(Read(h, PolyRef), w))
        mtx == Newest(h1)
        h2 == NewArray(h1, identity(w))
        result == Newest(h2)
        base == mtx
    IN  [heap |-> h2,
         frame |-> [outer |-> outer, steps |-> steps, init_t |-> init_t, mtx |-> mtx,
                    result |-> result, base |-> base, i |-> 0, mtx_pow |-> NoneVal,
                    last |-> NoneVal, stage |-> stage, ds |-> ds, tested |-> tested,
                    msg |-> msg]]

HeapCallFastForward ==
    /\ pc = "ready"
    /\ \E steps \in HeapSteps(width) :
          LET entry == FastForwardEntry(heap, "fast_forward_poly_fibonacci", steps, width,
                                        NoneVal, << >>, << >>, << >>)
          IN  HeapStep("exp_loop", <<"fast_forward_poly_fibonacci", steps>>, ret,
                       entry.heap, entry.frame)

HeapCallCheckPolyMaxLength ==
    /\ pc = "ready"
    /\ LET entry == FastForwardEntry(heap, "check_poly_max_length", period(width), width,
                                     "full", << >>, << >>, << >>)
       IN  HeapStep("exp_loop", <<"check_poly_max_length">>, ret, entry.heap, entry.frame)

HeapCallValidatePoly ==
    /\ pc = "ready"
    /\ HeapStep("returned", <<"validate_poly_numpy">>,
                Return(validate_poly_numpy(Read(heap, PolyRef), width)), heap, frame)

\* One turn of the loop of matrix_exponentiate_gf2.
ExponentiateIteration ==
    /\ pc = "exp_loop"
    /\ frame.i < width
    /\ LET ei == get_int_bit(frame.steps, frame.i)
           h1 == IF ei > 0
                 THEN NewArray(heap, matmul(Read(heap, frame.result), Read(heap, frame.base)))
                 ELSE heap
           result == IF ei > 0 THEN Newest(h1) ELSE frame.result
           h2 == IF ei > 0 THEN [h1 EXCEPT ![result.id] = matrix_gf2(@, width)] ELSE h1
           h3 == NewArray(h2, matmul(Read(h2, frame.base), Read(h2, frame.base)))
           base == Newest(h3)
           h4 == [h3 EXCEPT ![base.id] = matrix_gf2(@, width)]
       IN  HeapStep("exp_loop", call, ret, h4,
                    [frame EXCEPT !.result = result, !.base = base, !.i = frame.i + 1])

\* matrix_exponentiate_gf2 returns result to fast_forward_poly_fibonacci.
ExponentiateReturn ==
    /\ pc = "exp_loop"
    /\ frame.i >= width
    /\ HeapStep("ff_tail", call, ret, heap, [frame EXCEPT !.mtx_pow = frame.result])

\* The rest of fast_forward_poly_fibonacci.
FastForwardReturn ==
    /\ pc = "ff_tail"
    /\ LET h1 == NewArray(heap, matmul(Read(heap, frame.mtx_pow), Read(heap, frame.init_t)))
           last == Newest(h1)
           h2 == [h1 EXCEPT ![last.id] = column_gf2(@, width, 0)]
           last_t == numpy_transpose(last)
       IN  IF frame.outer = "fast_forward_poly_fibonacci"
           THEN HeapStep("returned", call, Return(Read(h2, last_t)), h2,
                         [frame EXCEPT !.last = last_t])
           ELSE HeapStep("check_compare", call, ret, h2, [frame EXCEPT !.last = last_t])

CheckReturn(verdict, msg) ==
    HeapStep("returned", call, Return(<<verdict, msg>>), heap, [frame EXCEPT !.msg = msg])

\* The head of the loop over the divisors: the next one is fast-forwarded by, or the
\* loop is over.
NextDivisor(ds, msg) ==
    IF ds = << >> THEN CheckReturn(TRUE, << >>)
    ELSE LET d == Head(ds)
             entry == FastForwardEntry(CallerArrays(heap), "check_poly_max_length", d, width,
                                       "sub", ds, Append(frame.tested, d),
                                       msg \o <<"  Checking sub-period of ", d>>)
         IN  HeapStep("exp_loop", call, ret, entry.heap, entry.frame)

\* check_poly_max_length from the return of a fast-forward to the next one.
CheckCompare ==
    /\ pc = "check_compare"
    /\ LET same == array_equal(Read(heap, frame.last), Read(heap, InitRef))
       IN  IF frame.stage = "full"
           THEN IF ~same
                THEN CheckReturn(FALSE, <<"Value after full period doesn't match initial value, not max length">>)
                ELSE IF is_mersenne_prime(period(width))
                THEN CheckReturn(TRUE, << >>)
                ELSE NextDivisor(SliceInner(divisors(period(width))),
                                 <<"Value after full period matches initial value (OK)",
                                   "\nChecking sub-periods...">>)
           ELSE IF same
                THEN CheckReturn(FALSE, frame.msg \o <<"    Value after sub-period matches initial value, not max length">>)
                ELSE NextDivisor(Tail(frame.ds),
                                 frame.msg \o <<"    Value after sub-period doesn't match initial value (OK)">>)

NextHeap ==
    \/ HeapCallFastForward
    \/ HeapCallCheckPolyMaxLength
    \/ HeapCallValidatePoly
    \/ ExponentiateIteration
    \/ ExponentiateReturn
    \/ FastForwardReturn
    \/ CheckCompare

SpecHeap == InitHeap /\ [][NextHeap]_vars

(***************************************************************************)
(* The feedback function written for drawn arguments                       *)
(***************************************************************************)
CallProcessPolyFunc ==
    /\ pc = "ready"
    /\ Applied(<<"_process_poly_func_wrapper">>,
               _process_poly_func_wrapper(feedback_mode, poly_numpy, width))

NextRender == CallProcessPolyFunc

SpecRender == InitMath /\ [][NextRender]_vars

(***************************************************************************)
(* Reference definitions the properties are stated with                    *)
(***************************************************************************)
\* One clock step: the matrix of fast_forward_poly_fibonacci applied once.
OneStep(poly, state, w) ==
    transpose(column_gf2(matmul(TransitionMatrix(poly, w), transpose(state)), w, 0))

\* Brute force: the number of single steps after which start is first seen
\* again, 0 when it is not seen again within 2^w steps.
RECURSIVE ReturnLoop(_, _, _, _, _)
ReturnLoop(poly, start, cur, w, n) ==
    IF Evaluated(cur) /\ n > 2^w THEN 0
    ELSE LET nxt == OneStep(poly, cur, w)
         IN  IF nxt = start THEN n ELSE ReturnLoop(poly, start, nxt, w, n + 1)

FirstReturn(poly, start, w) == ReturnLoop(poly, start, start, w, 1)

\* The states seen in the first n single steps from start.
RECURSIVE Visited(_, _, _, _)
Visited(poly, cur, w, n) ==
    IF Evaluated(cur) /\ n = 0 THEN {}
    ELSE LET nxt == OneStep(poly, cur, w)
         IN  {nxt} \cup Visited(poly, nxt, w, n - 1)

RECURSIVE PopCount(_)
PopCount(v) == IF v = 0 THEN 0 ELSE (v % 2) + PopCount(v \div 2)

Returned(name) == pc = "returned" /\ call # << >> /\ call[1] = name

Verdict == ret.exc = NoneVal /\ ret.val[1]

ValidatedInputs ==
    /\ feedback_mode = Fibonacci
    /\ validate_poly_numpy(poly_numpy, width)[1]
    /\ validate_init_value_int(feedback_mode, args.init_value, width)[1]

(***************************************************************************)
(* Properties                                                              *)
(***************************************************************************)
\* C1: for a polynomial that passes validate_poly_numpy and a non-zero initial
\* state in Fibonacci mode, check_poly_max_length returns true exactly when the
\* brute-force simulation first returns to the initial state after 2^width - 1
\* single steps.
C1_CertifierMatchesBruteForce ==
    (Returned("check_poly_max_length") /\ ValidatedInputs)
        => (Verdict <=> FirstReturn(poly_numpy, init_value_numpy, width) = period(width))

C1_Witness ==
    /\ Returned("check_poly_max_length") /\ ValidatedInputs
    /\ ~is_mersenne_prime(period(width))
    /\ Verdict

\* C2 (as stated): whenever check_poly_max_length returns true in Fibonacci mode,
\* for any polynomial and any initial state, the initial state first returns
\* after exactly 2^width - 1 single steps, so one step does not reproduce it.
C2_ExactOrderUnvalidated ==
    (Returned("check_poly_max_length") /\ feedback_mode = Fibonacci /\ Verdict)
        => /\ FirstReturn(poly_numpy, init_value_numpy, width) = period(width)
           /\ OneStep(poly_numpy, init_value_numpy, width) # init_value_numpy

\* C2 (amended): a true verdict means the initial state first returns after 1 or
\* after 2^width - 1 single steps; for a polynomial that passes
\* validate_poly_numpy and a non-zero initial state it is 2^width - 1, and one
\* step does not reproduce the initial state.
C2_ExactOrderOnValidated ==
    (Returned("check_poly_max_length") /\ feedback_mode = Fibonacci /\ Verdict)
        => /\ FirstReturn(poly_numpy, init_value_numpy, width) \in {1, period(width)}
           /\ ValidatedInputs =>
                 /\ FirstReturn(poly_numpy, init_value_numpy, width) = period(width)
                 /\ OneStep(poly_numpy, init_value_numpy, width) # init_value_numpy

C2_Witness ==
    /\ Returned("check_poly_max_length") /\ ValidatedInputs /\ Verdict
    /\ is_mersenne_prime(period(width))

\* C3: validate_poly_numpy on int2row(P) succeeds exactly when bit width-1 of P is
\* set and the number of set bits of P is even and at least 2; a failure carries
\* a non-empty reason.
C3_ValidatePoly ==
    Returned("validate_poly_numpy")
        => /\ ret.val[1] <=> /\ (args.poly \div 2^(width - 1)) % 2 = 1
                              /\ PopCount(args.poly) >= 2
                              /\ PopCount(args.poly) % 2 = 0
           /\ ~ret.val[1] => (ret.val[2] # << >> /\ \A k \in DOMAIN ret.val[2] : ret.val[2][k] # "")

C3_Witness ==
    /\ Returned("validate_poly_numpy")
    /\ (args.poly \div 2^(width - 1)) % 2 = 1
    /\ PopCount(args.poly) = 3
    /\ ~ret.val[1]

\* C4: validate_init_value_int fails in Fibonacci mode exactly for the all-zero
\* state and in Galois mode exactly for the all-ones state.
C4_ValidateInitValue ==
    Returned("validate_init_value_int")
        => (~ret.val[1] <=>
              \/ feedback_mode = Fibonacci /\ \A k \in 0..width-1 : init_value_numpy[0][k] = 0
              \/ feedback_mode = Galois /\ \A k \in 0..width-1 : init_value_numpy[0][k] = 1)

C4_Witness ==
    /\ Returned("validate_init_value_int")
    /\ feedback_mode = Galois
    /\ \A k \in 0..width-1 : init_value_numpy[0][k] = 1
    /\ ~ret.val[1]

\* C5 (as stated): fast-forwarding by a and then by b equals fast-forwarding by
\* a + b, for all non-negative a and b.
C5_AdditiveForAllSteps ==
    (Returned("fast_forward_twice") /\ feedback_mode = Fibonacci)
        => ret = fast_forward_poly_fibonacci(poly_numpy, init_value_numpy, call[2] + call[3], width)

\* C5 (amended): fast-forwarding by a and then by b equals fast-forwarding by
\* a + b whenever a + b < 2^width.
C5_AdditiveBelowWrap ==
    (Returned("fast_forward_twice") /\ feedback_mode = Fibonacci /\ call[2] + call[3] < 2^width)
        => ret = fast_forward_poly_fibonacci(poly_numpy, init_value_numpy, call[2] + call[3], width)

C5_Witness ==
    /\ Returned("fast_forward_twice") /\ feedback_mode = Fibonacci
    /\ call[2] >= 1 /\ call[3] >= 1 /\ call[2] + call[3] < 2^width
    /\ ret.val # init_value_numpy

\* the reference power: m multiplied by itself e times, entries reduced mod 2
RECURSIVE ReferencePower(_, _, _)
ReferencePower(m, e, w) ==
    IF e = 0 THEN identity(w)
    ELSE LET prev == ReferencePower(m, e - 1, w)
         IN  Materialize([i \in 0..(w - 1) |->
                            [j \in 0..(w - 1) |-> DotProduct(prev, m, i, j, 0, w - 1) % 2]])

\* C6: for every width x width 0/1 matrix M and every exponent e with
\* 0 <= e <= 2^width - 1, matrix_exponentiate_gf2(M, e, width) is M multiplied by
\* itself e times with the entries reduced mod 2; for e = 0 it is the identity matrix.
C6_ExponentiateMatchesReference ==
    Returned("matrix_exponentiate_gf2") =>
        /\ ret.exc = NoneVal
        /\ ret.val = ReferencePower(args.mtx, call[2], width)
        /\ call[2] = 0 => ret.val = identity(width)

\* a power with every exponent bit set that is neither the identity nor M itself
C6_Witness ==
    /\ Returned("matrix_exponentiate_gf2")
    /\ call[2] = period(width)
    /\ ret.val # identity(width)
    /\ ret.val # args.mtx
    /\ ret.val = ReferencePower(args.mtx, call[2], width)

Constructing == pc \in {"start", "init_value", "poly", "done", "failed"}

\* C7: in Galois mode fast_forward_poly_wrapper and check_poly_max_length raise
\* NotImplementedError for every polynomial, initial state and step count and never
\* return a value; so constructing LFSR_Params in Galois mode never completes, neither
\* with a user-supplied polynomial nor through the random polynomial search.
C7_GaloisNotImplemented ==
    /\ ( /\ feedback_mode = Galois
         /\ \/ Returned("fast_forward_poly_wrapper")
            \/ Returned("fast_forward_twice")
            \/ Returned("check_poly_max_length") )
       => ret = Raise("NotImplementedError")
    /\ (Constructing /\ args.feedback_mode = Galois) =>
          /\ pc # "done"
          /\ \A k \in 1..Len(calls) :
                calls[k].fn = "check_poly_max_length" => calls[k].ret = Raise("NotImplementedError")

\* the random polynomial search of a Galois construction ended by the certifier raising
C7_Witness ==
    /\ pc = "failed"
    /\ args.feedback_mode = Galois
    /\ args.poly = NoneVal
    /\ Len(calls) = 2
    /\ calls[2].fn = "check_poly_max_length"
    /\ ret = Raise("NotImplementedError")

\* what the user gave, judged from the arguments alone: a wide enough register, an
\* initial value and a polynomial that parse, fit and are valid, and a polynomial the
\* certifier accepts with that initial value
GivenInputsValid ==
    LET given_init == _int0x16(args.init_value)
        given_poly == _int0x16(args.poly)
    IN  /\ args.width >= MinWidth
        /\ given_init.exc = NoneVal
        /\ given_init.val < 2^args.width
        /\ validate_init_value_int(args.feedback_mode, given_init.val, args.width)[1]
        /\ given_poly.exc = NoneVal
        /\ given_poly.val < 2^args.width
        /\ validate_poly_numpy(int2row(given_poly.val, args.width), args.width)[1]
        /\ LET verdict == check_poly_max_length(args.feedback_mode,
                                                int2row(given_poly.val, args.width), args.width,
                                                int2row(given_init.val, args.width))
           IN  verdict.exc = NoneVal /\ verdict.val[1]

\* C8: whenever LFSR_Params construction completes, for any combination of
\* user-supplied or random polynomial and user-supplied or random initial value,
\* width >= 3, the initial value fits in width bits and passes validate_init_value_int
\* for the mode, the polynomial fits in width bits and passes validate_poly_numpy, and
\* check_poly_max_length returned true for exactly that polynomial with exactly that
\* initial value; otherwise construction ends in an error exit.
C8_NoSilentSuccess ==
    /\ pc = "done" =>
          /\ width >= MinWidth
          /\ init_value_int \in 0..(2^width - 1)
          /\ init_value_numpy = int2row(init_value_int, width)
          /\ validate_init_value_int(feedback_mode, init_value_int, width)[1]
          /\ ~args.init_random => _int0x16(args.init_value) = Return(init_value_int)
          /\ poly_int \in 0..(2^width - 1)
          /\ poly_numpy = int2row(poly_int, width)
          /\ validate_poly_numpy(poly_numpy, width)[1]
          /\ args.poly # NoneVal => _int0x16(args.poly) = Return(poly_int)
          /\ Len(calls) = 2
          /\ calls[2].fn = "check_poly_max_length"
          /\ calls[2].args = <<feedback_mode, poly_numpy, width, init_value_numpy>>
          /\ calls[2].ret.exc = NoneVal
          /\ calls[2].ret.val[1]
    /\ pc = "failed" => ret.exc \in {"SystemExit", "NotImplementedError"}
    /\ (pc \in {"done", "failed"} /\ ~args.init_random /\ args.poly # NoneVal) =>
          (pc = "done" <=> GivenInputsValid)

\* a construction that completed on a polynomial and an initial value the user gave
C8_Witness ==
    /\ pc = "done"
    /\ ~args.init_random
    /\ args.poly # NoneVal
    /\ init_value_int > 1
    /\ calls[2].ret.val[1]

\* the certifier's answer in the turn of the test loop that has just run
Accepted ==
    /\ Len(calls) = 2
    /\ calls[1].ret.val[1]
    /\ calls[2].ret.exc = NoneVal
    /\ calls[2].ret.val[1]

\* C9: for width 8, Fibonacci mode and initial state 1, among all polynomial bytes
\* 128..255 the ones that pass validate_poly_numpy and are classified maximal-length
\* by check_poly_max_length are exactly the bytes whose brute-force orbit of state 1
\* has length 255, and there are exactly 16 of them; no byte is missed and no bogus
\* byte is accepted.
C9_Width8Census ==
    /\ (pc \in {"test_loop", "test_done"} /\ feedback_mode = Fibonacci /\ calls # << >>) =>
          LET p == IF pc = "test_done" /\ ret = Return(FALSE) THEN poly_int ELSE poly_int - 1
          IN  /\ p \in 128..255
              /\ poly_numpy = int2row(p, TestWidth)
              /\ Accepted <=> OrbitLength(p, 1, TestWidth) = 255
    /\ (pc = "test_done" /\ feedback_mode = Fibonacci) =>
          /\ poly_int = 256
          /\ ret = Return(TRUE)
          /\ all_polys = << >>
          /\ Cardinality({p \in 128..255 : OrbitLength(p, 1, TestWidth) = 255}) = 16

\* the test went through all the bytes, found every reference polynomial and passed
C9_Witness ==
    /\ pc = "test_done"
    /\ feedback_mode = Fibonacci
    /\ poly_int = 256
    /\ ret = Return(TRUE)
    /\ all_polys = << >>

\* C10: at width 3, polynomial 0b110 passes validate_poly_numpy, is accepted by
\* check_poly_max_length with initial state 0b001, and single steps from 0b001
\* visit all 7 non-zero states before returning to 0b001.
C10_MinimumWidthBoundary ==
    (pc = "returned" /\ width = MinWidth /\ feedback_mode = Fibonacci
        /\ args.poly = 6 /\ args.init_value = 1)
        => /\ Returned("validate_poly_numpy") => ret.val[1]
           /\ Returned("check_poly_max_length") => Verdict
           /\ FirstReturn(poly_numpy, init_value_numpy, width) = 7
           /\ Visited(poly_numpy, init_value_numpy, width, 7) = {int2row(v, width) : v \in 1..7}

C10_Witness ==
    /\ Returned("check_poly_max_length") /\ width = MinWidth /\ feedback_mode = Fibonacci
    /\ args.poly = 6 /\ args.init_value = 1
    /\ Verdict

\* a is an r x c array with every entry 0 or 1
IsBinary(a, r, c) ==
    /\ DOMAIN a = 0..(r - 1)
    /\ \A i \in DOMAIN a :
          /\ DOMAIN a[i] = 0..(c - 1)
          /\ \A j \in DOMAIN a[i] : a[i][j] \in {0, 1}

\* C11: for every 0/1 polynomial, 0/1 initial state and step count, the accumulator and
\* the squared base matrix_exponentiate_gf2 carries into each turn of its loop, the
\* matrix it returns, and the state vector fast_forward_poly_fibonacci returns have all
\* entries in {0,1}; the matrices are width x width and the state vector is 1 x width.
C11_EntriesStayBinary ==
    /\ pc = "exp_loop" => /\ IsBinary(Read(heap, frame.result), width, width)
                          /\ IsBinary(Read(heap, frame.base), width, width)
    /\ pc = "ff_tail" => IsBinary(Read(heap, frame.mtx_pow), width, width)
    /\ (pc = "returned" /\ call[1] = "fast_forward_poly_fibonacci")
          => IsBinary(ret.val, 1, width)

\* a product with entries above 1 was reduced: three taps, the exponent with two bits set
C11_Witness ==
    /\ pc = "returned"
    /\ call = <<"fast_forward_poly_fibonacci", period(width)>>
    /\ PopCount(args.poly) >= 3
    /\ \E i, j \in 0..(width - 1) :
          matmul(TransitionMatrix(poly_numpy, width), TransitionMatrix(poly_numpy, width))[i][j] > 1

\* C12: every construction seeds the generator with RNG_Seed before it draws, so a
\* second construction from the same arguments draws the same sequence of candidate
\* initial values and polynomials as the first and ends as the first did: with the same
\* accepted polynomial and initial value, or with the same error.
C12_SeededSearchRepeats ==
    /\ pc # "start" => /\ rng.seed = RNG_Seed
                       /\ rng.yielded = SubSeq(tape, 1, Len(rng.yielded))
    /\ (pc \in {"done", "failed"} /\ previous.pc # NoneVal)
          => /\ rng.yielded = previous.draws
             /\ pc = previous.pc
             /\ ret = previous.ret
             /\ init_value_int = previous.init_value_int
             /\ poly_int = previous.poly_int
             /\ poly_func = previous.poly_func

\* a second search ended after retries, initial value and polynomial both drawn, a
\* valid polynomial rejected by the certifier on the way
C12_Witness ==
    /\ pc = "done"
    /\ previous.pc = "done"
    /\ args.init_random
    /\ args.poly = NoneVal
    /\ Len(rng.yielded) = MaxDraws
    /\ init_value_int = tape[1]
    /\ poly_int = tape[MaxDraws]
    /\ \E k \in 2..(MaxDraws - 1) : validate_poly_numpy(int2row(tape[k], width), width)[1]

\* C13: validate_poly_numpy, fast_forward_poly_fibonacci, matrix_exponentiate_gf2 and
\* check_poly_max_length leave their array arguments as they were: throughout and
\* after a call the caller's polynomial row and initial-state row hold the values
\* handed over, the matrix handed to matrix_exponentiate_gf2 holds its values when
\* that function has returned, and the result of the call is what a call on the
\* arrays as they are afterwards returns.
C13_ArgumentsUntouched ==
    /\ Read(heap, PolyRef) = poly_numpy
    /\ Read(heap, InitRef) = init_value_numpy
    /\ pc = "ff_tail" => Read(heap, frame.mtx) = TransitionMatrix(poly_numpy, width)
    /\ pc = "returned"
          => /\ call[1] = "validate_poly_numpy"
                   => ret = Return(validate_poly_numpy(Read(heap, PolyRef), width))
             /\ call[1] = "fast_forward_poly_fibonacci"
                   => ret = fast_forward_poly_fibonacci(Read(heap, PolyRef), Read(heap, InitRef),
                                                        call[2], width)
             /\ call[1] = "check_poly_max_length"
                   => ret = check_poly_max_length(Fibonacci, Read(heap, PolyRef), width,
                                                  Read(heap, InitRef))

\* check_poly_max_length returned after two sub-period checks, each of which made new
\* arrays and reduced them in place
C13_Witness ==
    /\ pc = "returned"
    /\ call[1] = "check_poly_max_length"
    /\ Len(frame.tested) >= 2
    /\ Len(heap) > 2

\* C14: in Fibonacci mode, when every width-bit value keeps being drawn, the loop that
\* draws the initial value ends with a value that passes validate_init_value_int, and
\* the loop that draws the polynomial ends with a polynomial that passes
\* validate_poly_numpy and is certified by check_poly_max_length.
C14_RetryLoopsTerminate ==
    /\ (pc = "init_value" /\ args.init_random)
          ~> (pc = "poly" /\ validate_init_value_int(feedback_mode, init_value_int, width)[1])
    /\ (pc = "poly" /\ args.poly = NoneVal) ~> (pc = "done" /\ Accepted)

\* both loops ran and the construction completed
C14_Witness ==
    /\ pc = "done"
    /\ feedback_mode = Fibonacci
    /\ args.init_random
    /\ args.poly = NoneVal
    /\ width = MaxWidth
    /\ Accepted

(***************************************************************************)
(* The initial value is settled before any polynomial is examined          *)
(***************************************************************************)
\* the calls of the step just taken that examine a polynomial
ExaminesPoly(made) ==
    {k \in DOMAIN made : made[k].fn \in {"validate_poly_numpy", "check_poly_max_length"}}

\* C15: a step of the construction examines a polynomial only when the initial value is
\* settled (parsed or drawn, and valid); such a step leaves the initial value as it
\* is, certifies its candidate against that very initial value, and when the
\* candidate is rejected changes nothing but the candidate polynomial.
C15_InitialValueSettledFirst ==
    [][/\ ExaminesPoly(calls') # {} => pc = "poly"
       /\ pc = "poly" =>
             /\ validate_init_value_int(feedback_mode, init_value_int, width)[1]
             /\ init_value_numpy = int2row(init_value_int, width)
             /\ init_value_int' = init_value_int
             /\ init_value_numpy' = init_value_numpy
             /\ \A k \in DOMAIN calls' :
                   calls'[k].fn = "check_poly_max_length" =>
                      /\ calls'[k].args[2] = poly_numpy'
                      /\ calls'[k].args[4] = init_value_numpy
             /\ pc' = "poly" =>
                   /\ args.poly = NoneVal
                   /\ \/ ~calls'[1].ret.val[1]
                      \/ ~calls'[2].ret.val[1]
                   /\ UNCHANGED <<args, width, feedback_mode, poly_func, ret, all_polys, call>>
      ]_vars

\* a candidate that passed validation was rejected by the certifier of a drawn initial
\* value other than the default one, and the search goes on
C15_Witness ==
    /\ pc = "poly"
    /\ args.init_random
    /\ init_value_int # 1
    /\ Len(calls) = 2
    /\ calls[2].fn = "check_poly_max_length"
    /\ ~calls[2].ret.val[1]
    /\ calls[2].args[4] = init_value_numpy

(***************************************************************************)
(* The order in which check_poly_max_length tests its step counts          *)
(***************************************************************************)
\* fast-forwarding the caller's initial state by d steps gives it back
Reproduces(d) ==
    fast_forward_poly_fibonacci(poly_numpy, init_value_numpy, d, width).val = init_value_numpy

InnerDivisors == SliceInner(divisors(period(width)))

\* the divisors of the period strictly between 1 and the period that give the initial
\* state back
Returning == {k \in DOMAIN InnerDivisors : Reproduces(InnerDivisors[k])}

\* the index of the smallest of them
FirstReturning == CHOOSE k \in Returning : \A j \in Returning : k <= j

\* C16: while check_poly_max_length runs, the divisors it has fast-forwarded by are an
\* initial stretch of the divisors d with 1 < d < 2^width - 1 in ascending order, none
\* before the full period was tested and found to give the initial state back, none
\* when the period is a Mersenne prime, and each but the last did not give the
\* initial state back; when it returns, it returned false with no divisor tested if
\* the full period does not give the initial state back, and otherwise it stopped
\* with false at the smallest divisor that does, which is the last one the
\* diagnostic names, or with true after all of them.
C16_ShortCircuitOrder ==
    (pc # "ready" /\ call[1] = "check_poly_max_length") =>
       LET tested == frame.tested
           n == Len(tested)
       IN  /\ n <= Len(InnerDivisors)
           /\ tested = SubSeq(InnerDivisors, 1, n)
           /\ \A k \in 1..n :
                 /\ 1 < tested[k] /\ tested[k] < period(width)
                 /\ k < n => (tested[k] < tested[k + 1] /\ ~Reproduces(tested[k]))
           /\ frame.stage = "full" => n = 0
           /\ n > 0 => (Reproduces(period(width)) /\ ~is_mersenne_prime(period(width)))
           /\ pc = "returned" =>
                 IF ~Reproduces(period(width))
                 THEN ~ret.val[1] /\ n = 0 /\ Len(ret.val[2]) = 1
                 ELSE IF is_mersenne_prime(period(width))
                 THEN ret.val[1] /\ n = 0
                 ELSE IF Returning # {}
                 THEN /\ ~ret.val[1]
                      /\ n = FirstReturning
                      /\ Len(ret.val[2]) = 2 + 3 * n
                      /\ \A k \in 1..n : ret.val[2][3 * k + 1] = tested[k]
                 ELSE ret.val[1] /\ n = Len(InnerDivisors)

\* the check returned false at the second divisor: the first was tested before it and
\* did not give the initial state back
C16_Witness ==
    /\ pc = "returned"
    /\ call[1] = "check_poly_max_length"
    /\ ~ret.val[1]
    /\ Len(frame.tested) = 2
    /\ frame.tested[2] = InnerDivisors[2]
    /\ init_value_int # 0

(***************************************************************************)
(* The feedback function that is written, read back                        *)
(***************************************************************************)
\* where pat occurs in text
Occurrences(text, pat) ==
    {i \in 1..(Len(text) - Len(pat) + 1) : SubSeq(text, i, i + Len(pat) - 1) = pat}

CurrentBit == "lfsr_value_current["

\* the first "]" after position i
ClosingBracket(text, i) ==
    CHOOSE j \in i..Len(text) :
       /\ SubSeq(text, j, j) = "]"
       /\ \A k \in i..(j - 1) : SubSeq(text, k, k) # "]"

\* what stands between the brackets of the reference to the current value at i
Subscript(text, i) == SubSeq(text, i + Len(CurrentBit), ClosingBracket(text, i) - 1)

\* the references that are single bits, the operands of the exclusive or
Operands(text, w) ==
    {i \in Occurrences(text, CurrentBit) : \E b \in 0..(w - 1) : Subscript(text, i) = ToString(b)}

OperandBit(text, w, i) == CHOOSE b \in 0..(w - 1) : Subscript(text, i) = ToString(b)

\* The state the written function gives for state cur: a concatenation of the slice
\* [w-2:0] of the current value, which becomes bits w-1..1, and of the exclusive or
\* of the operands, which becomes bit 0.
WrittenStep(text, cur, w) ==
    LET ones == {i \in Operands(text, w) : cur[0][OperandBit(text, w, i)] = 1}
    IN  [r \in 0..0 |-> [j \in 0..(w - 1) |->
            IF j = 0 THEN Cardinality(ones) % 2 ELSE cur[0][j - 1]]]

\* the text is the left-hand side, the slice, then the operands joined by ^, and then
\* the closing "};", which is nowhere else
WellFormed(text, w) ==
    LET head == "lfsr_value_next = {" \o CurrentBit \o ToString(w - 2) \o ":0], "
        refs == Occurrences(text, CurrentBit)
        ops == Operands(text, w)
    IN  /\ SubSeq(text, 1, Len(head)) = head
        /\ refs = ops \cup {Len("lfsr_value_next = {") + 1}
        /\ Len(head) + 1 \in ops
        /\ OperandBit(text, w, Len(head) + 1) = w - 1
        /\ Occurrences(text, "};") = {Len(text) - 1}
        /\ Cardinality(Occurrences(text, "^")) = Cardinality(ops) - 1
        /\ \A i \in ops :
              LET after == ClosingBracket(text, i) + 1
              IN  IF \E j \in ops : j > i
                  THEN SubSeq(text, after, after + 1) = " ^"
                  ELSE SubSeq(text, after, Len(text)) = "};"
        /\ \A i, j \in ops : i < j => OperandBit(text, w, i) > OperandBit(text, w, j)

\* C17: for a polynomial that passes validate_poly_numpy, the text written by
\* _process_poly_func_fibonacci is well formed (the shift slice, then current[width-1]
\* and the tapped lower bits in strictly descending order joined by ^, closed once,
\* after the last tap), its operands are exactly the set bits of the polynomial, and
\* read as a function it maps the state to the state that one step of the matrix of
\* fast_forward_poly_fibonacci maps it to.
C17_WrittenFunctionIsTheTransition ==
    (/\ pc = "returned"
     /\ call[1] = "_process_poly_func_wrapper"
     /\ feedback_mode = Fibonacci
     /\ validate_poly_numpy(poly_numpy, width)[1]) =>
       /\ ret.exc = NoneVal
       /\ WellFormed(ret.val, width)
       /\ {OperandBit(ret.val, width, i) : i \in Operands(ret.val, width)}
             = {b \in 0..(width - 1) : poly_numpy[0][b] = 1}
       /\ WrittenStep(ret.val, init_value_numpy, width) = OneStep(poly_numpy, init_value_numpy, width)
       /\ WrittenStep(ret.val, init_value_numpy, width)
             = fast_forward_poly_fibonacci(poly_numpy, init_value_numpy, 1, width).val

\* a polynomial with four taps, so three operands follow the top one, applied to a
\* state whose feedback bit is 1
C17_Witness ==
    /\ pc = "returned"
    /\ call[1] = "_process_poly_func_wrapper"
    /\ feedback_mode = Fibonacci
    /\ validate_poly_numpy(poly_numpy, width)[1]
    /\ numpy_sum(poly_numpy[0]) = 4
    /\ WrittenStep(ret.val, init_value_numpy, width)[0][0] = 1

(***************************************************************************)
(* Step counts of more bits than the width                                 *)
(***************************************************************************)
\* the state n single steps after cur
RECURSIVE StepsFrom(_, _, _, _)
StepsFrom(poly, cur, w, n) ==
    IF Evaluated(cur) /\ n = 0 THEN cur
    ELSE StepsFrom(poly, OneStep(poly, cur, w), w, n - 1)

\* C18: matrix_exponentiate_gf2 reads the exponent bits 0..width-1 only: for an exponent
\* e >= 2^width it returns the e mod 2^width-th power of the matrix, and
\* fast_forward_poly_fibonacci called with steps >= 2^width returns the state
\* steps mod 2^width single steps on, which for some polynomial and state is not the
\* state steps single steps on.  (The power depends on the polynomial alone: the
\* exponents of one more bit than the width are gone through once per polynomial.)
C18_HighExponentBitsIgnored ==
    (/\ pc \in {"ff_tail", "returned"}
     /\ call[1] = "fast_forward_poly_fibonacci"
     /\ call[2] >= 2^width) =>
       LET steps == call[2]
           low == steps % 2^width
           mtx == TransitionMatrix(poly_numpy, width)
       IN  /\ Read(heap, frame.mtx_pow) = ReferencePower(mtx, low, width)
           /\ (pc = "ff_tail" /\ init_value_int = 1) =>
                 \A e \in (2^width)..(2^(width + 1) - 1) :
                    matrix_exponentiate_gf2(mtx, e, width)
                       = matrix_exponentiate_gf2(mtx, e % 2^width, width)
           /\ pc = "returned" =>
                 /\ ret.val = StepsFrom(poly_numpy, init_value_numpy, width, low)
                 /\ ret = fast_forward_poly_fibonacci(poly_numpy, init_value_numpy, low, width)
                 /\ \E p, s \in 1..(2^width - 1) :
                       fast_forward_poly_fibonacci(int2row(p, width), int2row(s, width), steps, width).val
                          # StepsFrom(int2row(p, width), int2row(s, width), width, steps)

\* a call with a step count above 2^width returned a state that is not the state that
\* many single steps on
C18_Witness ==
    /\ pc = "returned"
    /\ call[1] = "fast_forward_poly_fibonacci"
    /\ call[2] > 2^width
    /\ validate_poly_numpy(poly_numpy, width)[1]
    /\ ret.val # StepsFrom(poly_numpy, init_value_numpy, width, call[2])

(***************************************************************************)
(* One step of a validated polynomial                                      *)
(***************************************************************************)
\* C19: with a polynomial that passes validate_poly_numpy, one step of the Fibonacci
\* transition maps no two states to the same state (so, on the finitely many
\* width-bit states, it is a bijection), maps no state but the all-zero one to itself,
\* and clears bit 0 of the all-ones state; a non-zero state is not seen again after
\* one step.
C19_OneStepBijectionZeroOnlyFixedPoint ==
    (/\ pc = "returned"
     /\ call = <<"fast_forward_poly_wrapper", 1>>
     /\ feedback_mode = Fibonacci
     /\ validate_poly_numpy(poly_numpy, width)[1]) =>
       /\ ret.exc = NoneVal
       /\ ret.val = OneStep(poly_numpy, init_value_numpy, width)
       /\ \A s \in 0..(2^width - 1) :
             s # init_value_int =>
                fast_forward_poly_fibonacci(poly_numpy, int2row(s, width), 1, width).val # ret.val
       /\ ret.val = init_value_numpy <=> init_value_int = 0
       /\ init_value_int = 2^width - 1 => ret.val[0][0] = 0
       /\ init_value_int # 0 => FirstReturn(poly_numpy, init_value_numpy, width) > 1

\* one step from the all-ones state, which stays all ones but for bit 0
C19_Witness ==
    /\ pc = "returned"
    /\ call = <<"fast_forward_poly_wrapper", 1>>
    /\ feedback_mode = Fibonacci
    /\ validate_poly_numpy(poly_numpy, width)[1]
    /\ init_value_int = 2^width - 1
    /\ ret.val = int2row(2^width - 2, width)

(***************************************************************************)
(* The verdict and the initial state                                       *)
(***************************************************************************)
\* C20: in Fibonacci mode, for a polynomial that passes validate_poly_numpy, the
\* boolean check_poly_max_length returns for one non-zero initial state is the boolean
\* it returns for every other non-zero initial state; when it is true the register
\* started from any non-zero state runs through the full period.
C20_VerdictSameForEveryInitialState ==
    (/\ Returned("check_poly_max_length")
     /\ feedback_mode = Fibonacci
     /\ validate_poly_numpy(poly_numpy, width)[1]
     /\ init_value_int # 0) =>
       /\ ret.exc = NoneVal
       /\ \A s2 \in 1..(2^width - 1) :
             CheckPolyResults[Fibonacci][width][poly_int][s2].val[1] = ret.val[1]
       /\ ret.val[1] => FirstReturn(poly_numpy, init_value_numpy, width) = period(width)

\* a polynomial rejected from one non-zero state (and so from all), and one accepted
C20_Witness ==
    /\ Returned("check_poly_max_length")
    /\ feedback_mode = Fibonacci
    /\ validate_poly_numpy(poly_numpy, width)[1]
    /\ init_value_int \notin {0, 1}
    /\ width = MaxWidth
    /\ ~ret.val[1]

(***************************************************************************)
(* check_poly_max_length is called on validated inputs only                *)
(***************************************************************************)
\* the calls of made that are of function fn
CallsOf(made, fn) == {k \in DOMAIN made : made[k].fn = fn}

\* C21: the construction gets to its polynomial part only by a step whose last call is a
\* successful validate_init_value_int on the initial value it keeps, and it keeps
\* that value from then on; every call of check_poly_max_length is made in the
\* polynomial part, straight after a successful validate_poly_numpy on the same
\* polynomial row, with the row of that validated initial value; a validation of a
\* user-supplied initial value or polynomial that fails ends the construction with
\* SystemExit in the same step, with no call of check_poly_max_length, and nothing
\* is called after the construction has ended.
C21_CertifierCalledOnValidatedInputs ==
    [][/\ pc \notin {"done", "failed"}
       /\ pc' = "poly" => pc \in {"init_value", "poly"}
       /\ (pc = "init_value" /\ pc' = "poly") =>
             /\ calls' # << >>
             /\ calls'[Len(calls')].fn = "validate_init_value_int"
             /\ calls'[Len(calls')].args = <<feedback_mode, init_value_int', width>>
             /\ calls'[Len(calls')].ret.val[1]
             /\ init_value_numpy' = int2row(init_value_int', width)
       /\ pc = "poly" =>
             /\ init_value_int' = init_value_int
             /\ init_value_numpy' = init_value_numpy
       /\ \A k \in CallsOf(calls', "check_poly_max_length") :
             /\ pc = "poly"
             /\ k > 1
             /\ calls'[k - 1].fn = "validate_poly_numpy"
             /\ calls'[k - 1].ret.val[1]
             /\ calls'[k - 1].args[1] = calls'[k].args[2]
             /\ calls'[k].args[2] = poly_numpy'
             /\ calls'[k].args[4] = init_value_numpy
             /\ init_value_numpy = int2row(init_value_int, width)
             /\ validate_init_value_int(feedback_mode, init_value_int, width)[1]
       /\ \A k \in CallsOf(calls', "validate_init_value_int") \cup CallsOf(calls', "validate_poly_numpy") :
             (/\ ~calls'[k].ret.val[1]
              /\ IF pc = "init_value" THEN ~args.init_random ELSE args.poly # NoneVal) =>
                /\ pc' = "failed"
                /\ ret'.exc = "SystemExit"
                /\ k = Len(calls')
                /\ CallsOf(calls', "check_poly_max_length") = {}
      ]_vars

\* a user-supplied polynomial was certified against a drawn initial value
C21_Witness ==
    /\ pc = "done"
    /\ args.init_random
    /\ args.poly # NoneVal
    /\ init_value_int # 1
    /\ Len(calls) = 2
    /\ calls[1].fn = "validate_poly_numpy"
    /\ calls[2].fn = "check_poly_max_length"
    /\ calls[2].args[4] = int2row(init_value_int, width)
    /\ calls[2].ret.val[1]

====
